---- MODULE Spec2Model ----
(***************************************************************************)
(* marathon-dns-updater: the reconciliation run (updateRecords), the       *)
(* driver loop (main) and the hand-rolled event stream parser (getEvents). *)
(*                                                                         *)
(* Go strings are sequences of one-character strings, so that splitting,   *)
(* trimming, formatting and the byte order used by sort.Strings are        *)
(* computed, not assumed.  A nil *string is the empty sequence, a nil      *)
(* *int64 is 0.                                                            *)
(***************************************************************************)
EXTENDS Integers, Sequences, FiniteSets, TLC

VARIABLES
    recordSetName,   \* flag record-set
    recordSetTypes,  \* the enabled strategies (keys of the map recordSetTypes)
    zone,            \* the hosted zone held by the DNS provider: a set of record sets
    pc,              \* position of the main goroutine
    app,             \* the snapshot fetched by the current run
    taskIps,         \* the map built by the current run (its key set)
    recordSets,      \* what ListResourceRecordSets returned to the current run
    changes,         \* the change batch built by the current run
    calls,           \* DNS provider operations invoked by the current run, in order
    result,          \* what updateRecords returned: "none", "ok", "nonfatal", "fatal"
    waitErr,         \* WaitUntilResourceRecordSetsChanged of the current run
                     \* returned an error
    listErr,         \* ListResourceRecordSets of the current run returned an
                     \* error
    prev,            \* the previous run, when its batch was accepted: its
                     \* taskIps and upserts
    runs,            \* runs of updateRecords started so far
    input,           \* what the server writes on the event stream: a sequence of
                     \* items, each a sequence of lines
    body,            \* resp.Body: the bytes not read yet
    closed,          \* the connection ends after the last byte (reads then fail)
    spc,             \* position of the getEvents goroutine
    eventType,       \* its local eventType
    data,            \* its local data
    events,          \* the buffer of the channel events (allEvents)
    emitted,         \* every event sent on events, in order
    failures,        \* every error handed to sendError, in order, and whether
                     \* a receiver took it
    errsReady,       \* the goroutine draining errs is blocked in its receive
    ctxDone,         \* cancel() has been called
    eofReads,        \* reads that failed so far
    fpc,             \* position of the filterStatusUpdateEvents goroutine
    update,          \* its local update, once deserialized
    received,        \* every update main received from statusUpdateEvents, in order
    zone0            \* the hosted zone before the first run

rvars == <<recordSetName, recordSetTypes, zone0, zone, pc, app, taskIps, recordSets,
           changes, calls, result, waitErr, listErr, prev, runs>>

svars == <<input, body, closed, spc, eventType, data, events, emitted,
           failures, errsReady, ctxDone, eofReads>>

fvars == <<fpc, update, received>>

vars == <<rvars, svars, fvars>>

-----------------------------------------------------------------------------
(* Bounds of the model *)

MaxTasks == 2
MaxPrior == 1
MaxRuns == 2
MaxItems == 3
MaxEofReads == 2
MaxPipelineItems == 2
MaxWakeups == 2

-----------------------------------------------------------------------------
(* Strings *)

\* The byte value of a character (Go compares strings bytewise).
Ord(c) ==
    CASE c = "\t" -> 9
      [] c = "\n" -> 10
      [] c = "\r" -> 13
      [] c = " " -> 32
      [] c = "-" -> 45
      [] c = "." -> 46
      [] c = "0" -> 48
      [] c = "1" -> 49
      [] c = "2" -> 50
      [] c = "3" -> 51
      [] c = "4" -> 52
      [] c = "5" -> 53
      [] c = "6" -> 54
      [] c = "7" -> 55
      [] c = "8" -> 56
      [] c = "9" -> 57
      [] c = ":" -> 58
      [] c = "a" -> 97
      [] c = "d" -> 100
      [] c = "e" -> 101
      [] c = "g" -> 103
      [] c = "h" -> 104
      [] c = "i" -> 105
      [] c = "s" -> 115
      [] c = "t" -> 116
      [] c = "v" -> 118
      [] c = "w" -> 119
      [] c = "x" -> 120
      [] c = "z" -> 122
      [] c = "{" -> 123
      [] c = "}" -> 125

\* a < b for Go strings.
StrLess(a, b) ==
    \E i \in 1..(Len(b)) :
        /\ \A j \in 1..(i - 1) : j <= Len(a) /\ a[j] = b[j]
        /\ \/ i = Len(a) + 1
           \/ i <= Len(a) /\ Ord(a[i]) < Ord(b[i])

\* sort.Strings applied to the keys of a map: ascending, no duplicates.
RECURSIVE SortStrings(_)
SortStrings(S) ==
    IF S = {} THEN <<>>
    ELSE LET m == CHOOSE x \in S : \A y \in S \ {x} : StrLess(x, y)
         IN  <<m>> \o SortStrings(S \ {m})

\* strings.Index(s, sep) for a one-character sep, 1-based; 0 when absent.
Index(s, sep) ==
    IF \E i \in 1..Len(s) : s[i] = sep
    THEN CHOOSE i \in 1..Len(s) : s[i] = sep /\ \A j \in 1..(i - 1) : s[j] # sep
    ELSE 0

\* strings.SplitN(s, sep, 2): at most two parts, split at the first sep.
SplitN2(s, sep) ==
    LET i == Index(s, sep)
    IN  IF i = 0 THEN <<s>>
        ELSE <<SubSeq(s, 1, i - 1), SubSeq(s, i + 1, Len(s))>>

\* fmt.Sprintf("%d", n) for n >= 0.
Digit(d) == <<"0", "1", "2", "3", "4", "5", "6", "7", "8", "9">>[d + 1]

RECURSIVE Itoa(_)
Itoa(n) == IF n < 10 THEN <<Digit(n)>> ELSE Itoa(n \div 10) \o <<Digit(n % 10)>>

-----------------------------------------------------------------------------
(* Constants of the program *)

WEIGHTED == "weighted"
ENUMERATED == "enumerated"
TaskRunning == "TASK_RUNNING"
TaskKilled == "TASK_KILLED"

\* flag app-id after main has prefixed it with "/", and some other application.
appId == <<"/", "m">>
otherAppId == <<"/", "o">>

-----------------------------------------------------------------------------
(* Inputs: addresses, names, snapshots, prior zone contents *)

A1 == <<"1", ".", "1">>
A10 == <<"1", ".", "1", "0">>
A5 == <<"1", ".", "5">>
Addresses == {A1, A10, A5}

NameDotted == <<"s", "v", ".", "e", ".", "x">>
NameFlat == <<"s", "v">>
Names == {NameDotted, NameFlat}

\* One ipAddresses entry of a task.
IP(a, p) == [IPAddress |-> a, Protocol |-> p]

\* One task of the application snapshot.
Task(s, ips) == [State |-> s, IPAddresses |-> ips]

TaskUniverse ==
    {Task(TaskRunning, <<IP(A10, "IPv4")>>),
     Task(TaskRunning, <<IP(A5, "IPv4"), IP(A1, "IPv4")>>),
     Task(TaskRunning, <<IP(A10, "IPv6"), IP(A1, "IPv4")>>),
     Task(TaskKilled, <<IP(A10, "IPv4")>>)}

\* The application returned by client.Application: at most MaxTasks tasks,
\* in any order (a task is listed once).
App(tasks) == [ok |-> TRUE, Tasks |-> tasks]

Snapshots ==
    {App(t) : t \in {t \in UNION {[1..n -> TaskUniverse] : n \in 0..MaxTasks} :
                        \A i, j \in DOMAIN t : i # j => t[i] # t[j]}}

\* No application at hand: before the fetch, and once taskIps is built.
NoApp == [ok |-> FALSE, Tasks |-> <<>>]

\* A route53.ResourceRecordSet of type A (TTL and Weight 0 when unset).
ResourceRecordSet(name, id, weight, values) ==
    [Name |-> name, SetIdentifier |-> id, Weight |-> weight, TTL |-> 60,
     ResourceRecords |-> values]

WeightedPrefix == <<"w", "e", "i", "g", "h", "t", "e", "d", "-">>

\* Record sets the zone may hold before the first run.
PriorRecords ==
    {ResourceRecordSet(NameDotted, WeightedPrefix \o A5, 10, <<A5>>),
     ResourceRecordSet(<<"s", "v", "-", "3", ".", "e", ".", "x">>, <<>>, 0, <<A10>>),
     ResourceRecordSet(NameDotted, <<"x">>, 10, <<A1, A5>>),
     ResourceRecordSet(NameDotted, <<"a">>, 10, <<>>),
     ResourceRecordSet(<<"z", ".", "e", ".", "x">>, <<>>, 0, <<A5>>),
     ResourceRecordSet(<<"a", ".", "e", ".", "x">>, <<>>, 0, <<A5>>)}

PriorZones == {z \in SUBSET PriorRecords : Cardinality(z) <= MaxPrior}

-----------------------------------------------------------------------------
(* The DNS provider *)

\* The provider identifies a record set of one type by name and set identifier.
SameRecord(r, q) == r.Name = q.Name /\ r.SetIdentifier = q.SetIdentifier

\* The provider lists record sets in name order (then by set identifier).
RecordBefore(r, q) ==
    \/ StrLess(r.Name, q.Name)
    \/ r.Name = q.Name /\ StrLess(r.SetIdentifier, q.SetIdentifier)

RECURSIVE SortRecords(_)
SortRecords(S) ==
    IF S = {} THEN <<>>
    ELSE LET m == CHOOSE x \in S : \A y \in S \ {x} : RecordBefore(x, y)
         IN  <<m>> \o SortRecords(S \ {m})

\* ListResourceRecordSets with StartRecordName: the record sets from that
\* name on, in the provider's order.
ListResourceRecordSets(z, start) ==
    SortRecords({r \in z : ~StrLess(r.Name, start)})

\* The effect of one accepted change on the zone.
ApplyChange(z, c) ==
    LET others == {r \in z : ~SameRecord(r, c.ResourceRecordSet)}
    IN  IF c.Action = "DELETE" THEN others
        ELSE others \cup {c.ResourceRecordSet}

\* The effect of an accepted change batch: its changes applied in order.
RECURSIVE ChangeResourceRecordSets(_, _)
ChangeResourceRecordSets(z, chs) ==
    IF chs = <<>> THEN z
    ELSE ChangeResourceRecordSets(ApplyChange(z, Head(chs)), Tail(chs))

-----------------------------------------------------------------------------
(* updateRecords *)

\* Mutant of TaskIps: the protocol of the address is not looked at.
TaskIps_AnyProtocol(tasks) ==
    {tasks[i].IPAddresses[j].IPAddress :
        <<i, j>> \in {<<i, j>> \in (DOMAIN tasks) \X (1..2) :
            /\ tasks[i].State = TaskRunning
            /\ j \in DOMAIN tasks[i].IPAddresses}}

\* Mutant of TaskIps: the state of the task is not looked at.
TaskIps_AnyState(tasks) ==
    {tasks[i].IPAddresses[j].IPAddress :
        <<i, j>> \in {<<i, j>> \in (DOMAIN tasks) \X (1..2) :
            /\ j \in DOMAIN tasks[i].IPAddresses
            /\ tasks[i].IPAddresses[j].Protocol = "IPv4"}}

\* The map taskIps after the loop over app.Tasks: the IPv4 addresses of the
\* running tasks (a map, so a repeated address is one key).
TaskIps(tasks) ==
    {tasks[i].IPAddresses[j].IPAddress :
        <<i, j>> \in {<<i, j>> \in (DOMAIN tasks) \X (1..2) :
            /\ tasks[i].State = TaskRunning
            /\ j \in DOMAIN tasks[i].IPAddresses
            /\ tasks[i].IPAddresses[j].Protocol = "IPv4"}}

\* taskIps[key]: the value stored under key, "" when the key is absent.
MapLookup(m, key) == IF key \in m THEN key ELSE <<>>

Change(action, recordSet) == [Action |-> action, ResourceRecordSet |-> recordSet]

\* Mutant of DeleteChanges: a record set without values is marked too.
DeleteChanges_Valueless(listed, ips) ==
    LET stale(r) == \/ Len(r.ResourceRecords) = 0
                    \/ MapLookup(ips, r.ResourceRecords[1]) = <<>>
        marked == SelectSeq(listed, stale)
    IN  [i \in DOMAIN marked |-> Change("DELETE", marked[i])]

\* The loop over the listed record sets: one Delete per record set that has
\* a value and whose first value is not a key of taskIps.
DeleteChanges(listed, ips) ==
    LET stale(r) == /\ Len(r.ResourceRecords) > 0
                    /\ MapLookup(ips, r.ResourceRecords[1]) = <<>>
        marked == SelectSeq(listed, stale)
    IN  [i \in DOMAIN marked |-> Change("DELETE", marked[i])]

\* The order in which the upsert loop visits the addresses.
SortedTaskIps(ips) == SortStrings(ips)

\* recordIdentifier := "weighted-" + ip
RecordIdentifier(ip) == WeightedPrefix \o ip

\* Mutant of EnumeratedName: the 0-based idx is printed.
EnumeratedName_ZeroBased(parts, idx) ==
    parts[1] \o <<"-">> \o Itoa(idx) \o <<".">> \o parts[2]

\* fmt.Sprintf("%s-%d.%s", parts[0], idx+1, parts[1]) for a 0-based idx.
EnumeratedName(parts, idx) ==
    parts[1] \o <<"-">> \o Itoa(idx + 1) \o <<".">> \o parts[2]

\* Mutant of LoopBody: the weighted set identifier is the bare address.
LoopBody_AddressIdentifier(name, types, idx, ip) ==
    LET w == IF WEIGHTED \in types
             THEN <<Change("UPSERT", ResourceRecordSet(name, ip, 10, <<ip>>))>>
             ELSE <<>>
        parts == SplitN2(name, ".")
    IN  IF ENUMERATED \notin types THEN [err |-> FALSE, changes |-> w]
        ELSE IF Len(parts) # 2 THEN [err |-> TRUE, changes |-> w]
        ELSE [err |-> FALSE,
              changes |-> w \o <<Change("UPSERT",
                  ResourceRecordSet(EnumeratedName(parts, idx), <<>>, 0, <<ip>>))>>]

\* Mutant of LoopBody: the weighted set identifier is made from the position
\* of the address, not from the address.
LoopBody_IndexIdentifier(name, types, idx, ip) ==
    LET w == IF WEIGHTED \in types
             THEN <<Change("UPSERT",
                      ResourceRecordSet(name, WeightedPrefix \o Itoa(idx), 10, <<ip>>))>>
             ELSE <<>>
        parts == SplitN2(name, ".")
    IN  IF ENUMERATED \notin types THEN [err |-> FALSE, changes |-> w]
        ELSE IF Len(parts) # 2 THEN [err |-> TRUE, changes |-> w]
        ELSE [err |-> FALSE,
              changes |-> w \o <<Change("UPSERT",
                  ResourceRecordSet(EnumeratedName(parts, idx), <<>>, 0, <<ip>>))>>]

\* One iteration of the loop over sortedTaskIps, for the address ip at the
\* 0-based position idx: the weighted upsert, then the enumerated one; err
\* when the enumerated strategy meets a name that does not split in two.
LoopBody(name, types, idx, ip) ==
    LET w == IF WEIGHTED \in types
             THEN <<Change("UPSERT",
                      ResourceRecordSet(name, RecordIdentifier(ip), 10, <<ip>>))>>
             ELSE <<>>
        parts == SplitN2(name, ".")
    IN  IF ENUMERATED \notin types THEN [err |-> FALSE, changes |-> w]
        ELSE IF Len(parts) # 2 THEN [err |-> TRUE, changes |-> w]
        ELSE [err |-> FALSE,
              changes |-> w \o <<Change("UPSERT",
                  ResourceRecordSet(EnumeratedName(parts, idx), <<>>, 0, <<ip>>))>>]

\* The loop over sortedTaskIps from its i-th element on; it returns at the
\* first iteration that fails.
RECURSIVE UpsertLoop(_, _, _, _)
UpsertLoop(sorted, i, name, types) ==
    IF i > Len(sorted) THEN [err |-> FALSE, changes |-> <<>>]
    ELSE LET b == LoopBody(name, types, i - 1, sorted[i])
         IN  IF b.err THEN b
             ELSE LET rest == UpsertLoop(sorted, i + 1, name, types)
                  IN  [err |-> rest.err, changes |-> b.changes \o rest.changes]

\* The batch of a run: the deletes, then the upserts.
BuildChanges(listed, ips, name, types) ==
    LET up == UpsertLoop(SortedTaskIps(ips), 1, name, types)
    IN  [err |-> up.err, changes |-> DeleteChanges(listed, ips) \o up.changes]

\* The changes of a batch with the given action, in batch order.
WithAction(chs, action) == SelectSeq(chs, LAMBDA c : c.Action = action)

\* No update at hand.
NoUpdate == [AppID |-> <<>>, TaskID |-> <<>>]

\* No previous run on record.
NoRun == [taskIps |-> {}, upserts |-> <<>>]

Init ==
    /\ recordSetName \in Names
    /\ recordSetTypes \in (SUBSET {WEIGHTED, ENUMERATED}) \ {{}}
    /\ zone \in PriorZones
    /\ pc = "fetch"
    /\ app = NoApp
    /\ taskIps = {}
    /\ recordSets = <<>>
    /\ changes = <<>>
    /\ calls = <<>>
    /\ result = "none"
    /\ waitErr = FALSE
    /\ listErr = FALSE
    /\ prev = NoRun
    /\ runs = 1
    /\ input = <<>>
    /\ body = <<>>
    /\ closed = FALSE
    /\ spc = "header"
    /\ eventType = <<>>
    /\ data = <<>>
    /\ events = <<>>
    /\ emitted = <<>>
    /\ failures = <<>>
    /\ errsReady = FALSE
    /\ ctxDone = FALSE
    /\ eofReads = 0
    /\ fpc = "recv"
    /\ update = NoUpdate
    /\ received = <<>>
    /\ zone0 = zone

\* Mutant of FetchFails: the failed fetch is a non-fatal error.
FetchFails_NonFatal ==
    /\ pc = "fetch"
    /\ spc # "panic"
    /\ result' = "nonfatal"
    /\ pc' = "sleep"
    /\ UNCHANGED <<recordSetName, recordSetTypes, waitErr, listErr, zone0, zone, app, taskIps, recordSets,
                   changes, calls, prev, runs>>
    /\ UNCHANGED <<svars, fvars>>

\* client.Application fails: updateRecords returns a fatal error.
FetchFails ==
    /\ pc = "fetch"
    /\ spc # "panic"
    /\ result' = "fatal"
    /\ pc' = "fatal"
    /\ UNCHANGED <<recordSetName, recordSetTypes, waitErr, listErr, zone0, zone, app, taskIps, recordSets,
                   changes, calls, prev, runs>>
    /\ UNCHANGED <<svars, fvars>>

\* client.Application returns a snapshot; taskIps is built; an empty taskIps
\* is a fatal error.
FetchAppFrom(S) ==
    /\ pc = "fetch"
    /\ \E a \in S :
        /\ app' = a
        /\ taskIps' = TaskIps(a.Tasks)
        /\ IF TaskIps(a.Tasks) = {}
           THEN result' = "fatal" /\ pc' = "fatal"
           ELSE result' = result /\ pc' = "list"
    /\ UNCHANGED <<recordSetName, recordSetTypes, waitErr, listErr, zone0, zone, recordSets, changes,
                   calls, prev, runs>>
    /\ UNCHANGED <<svars, fvars>>

FetchApp == FetchAppFrom(Snapshots)

\* The list call has returned listed; the two loops build the batch.  The
\* snapshot is not referenced after taskIps is built and is dropped here.
AfterList(listed) ==
    LET b == BuildChanges(listed, taskIps, recordSetName, recordSetTypes)
    IN  /\ recordSets' = listed
        /\ calls' = Append(calls, "list")
        /\ changes' = b.changes
        /\ IF b.err
           THEN result' = "fatal" /\ pc' = "fatal"
           ELSE result' = result /\ pc' = "submit"
        /\ app' = NoApp
        /\ UNCHANGED <<recordSetName, recordSetTypes, waitErr, zone0, zone, taskIps, prev, runs>>
        /\ UNCHANGED <<svars, fvars>>

\* r53.ListResourceRecordSets succeeds.
ListRecords ==
    /\ pc = "list"
    /\ AfterList(ListResourceRecordSets(zone, recordSetName))
    /\ listErr' = FALSE

\* r53.ListResourceRecordSets fails: the error is not looked at and the
\* output holds no record sets.
ListFails ==
    /\ pc = "list"
    /\ AfterList(<<>>)
    /\ listErr' = TRUE

\* r53.ChangeResourceRecordSets accepts the batch.
SubmitAccepted ==
    /\ pc = "submit"
    /\ calls' = Append(calls, "change")
    /\ zone' = ChangeResourceRecordSets(zone, changes)
    /\ pc' = "wait"
    /\ UNCHANGED <<recordSetName, recordSetTypes, waitErr, listErr, zone0, app, taskIps, recordSets,
                   changes, result, prev, runs>>
    /\ UNCHANGED <<svars, fvars>>

\* Mutant of SubmitRejected: the rejection is a fatal error.
SubmitRejected_Fatal ==
    /\ pc = "submit"
    /\ calls' = Append(calls, "change")
    /\ result' = "fatal"
    /\ pc' = "fatal"
    /\ UNCHANGED <<recordSetName, recordSetTypes, waitErr, listErr, zone0, zone, app, taskIps, recordSets,
                   changes, prev, runs>>
    /\ UNCHANGED <<svars, fvars>>

\* r53.ChangeResourceRecordSets rejects the batch: a non-fatal error.
SubmitRejected ==
    /\ pc = "submit"
    /\ calls' = Append(calls, "change")
    /\ result' = "nonfatal"
    /\ pc' = "sleep"
    /\ UNCHANGED <<recordSetName, recordSetTypes, waitErr, listErr, zone0, zone, app, taskIps, recordSets,
                   changes, prev, runs>>
    /\ UNCHANGED <<svars, fvars>>

\* Mutant of AwaitChange: the error of the wait is returned to main as a
\* non-fatal error.
AwaitChange_ReturnsError ==
    /\ pc = "wait"
    /\ calls' = Append(calls, "wait")
    /\ \E e \in BOOLEAN :
           /\ waitErr' = e
           /\ result' = IF e THEN "nonfatal" ELSE "ok"
    /\ pc' = "sleep"
    /\ UNCHANGED <<recordSetName, recordSetTypes, listErr, zone0, zone, app, taskIps, recordSets,
                   changes, prev, runs>>
    /\ UNCHANGED <<svars, fvars>>

\* r53.WaitUntilResourceRecordSetsChanged returns, with an error or without
\* (its error is only logged).
AwaitChange ==
    /\ pc = "wait"
    /\ calls' = Append(calls, "wait")
    /\ waitErr' \in BOOLEAN
    /\ result' = "ok"
    /\ pc' = "sleep"
    /\ UNCHANGED <<recordSetName, recordSetTypes, listErr, zone0, zone, app, taskIps, recordSets,
                   changes, prev, runs>>
    /\ UNCHANGED <<svars, fvars>>

\* main: a fatal error ends the process.
Fatal ==
    /\ pc = "fatal"
    /\ pc' = "exited"
    /\ UNCHANGED <<recordSetName, recordSetTypes, waitErr, listErr, zone0, zone, app, taskIps, recordSets,
                   changes, calls, result, prev, runs>>
    /\ UNCHANGED <<svars, fvars>>

\* main: time.Sleep after a run that was not fatal.
Sleep ==
    /\ pc = "sleep"
    /\ pc' = "recv"
    /\ UNCHANGED <<recordSetName, recordSetTypes, waitErr, listErr, zone0, zone, app, taskIps, recordSets,
                   changes, calls, result, prev, runs>>
    /\ UNCHANGED <<svars, fvars>>

\* main: an event for another application is received; keep waiting.
RecvOther ==
    /\ pc = "recv"
    /\ \E id \in {otherAppId} : id # appId
    /\ UNCHANGED vars

\* The loop of main comes round: the next run starts with nothing of the
\* run before (prev keeps what the properties compare).
NextRun ==
    /\ runs' = runs + 1
    /\ prev' = IF result = "ok"
               THEN [taskIps |-> taskIps, upserts |-> WithAction(changes, "UPSERT")]
               ELSE NoRun
    /\ pc' = "fetch"
    /\ app' = NoApp
    /\ taskIps' = {}
    /\ recordSets' = <<>>
    /\ changes' = <<>>
    /\ calls' = <<>>
    /\ result' = "none"
    /\ waitErr' = FALSE
    /\ listErr' = FALSE
    /\ UNCHANGED <<recordSetName, recordSetTypes, zone0, zone>>

\* main: an event for the application is received; the next run starts
\* (at most MaxRuns runs are followed).
RecvOwn ==
    /\ pc = "recv"
    /\ \E id \in {appId} : id = appId
    /\ runs < MaxRuns
    /\ NextRun
    /\ UNCHANGED <<svars, fvars>>

Next ==
    \/ FetchFails
    \/ FetchApp
    \/ ListRecords
    \/ ListFails
    \/ SubmitAccepted
    \/ SubmitRejected
    \/ AwaitChange
    \/ Fatal
    \/ Sleep
    \/ RecvOther
    \/ RecvOwn

Spec == Init /\ [][Next]_vars

-----------------------------------------------------------------------------
(* The event stream: getEvents and the goroutines around it *)

StatusUpdateEvent ==
    <<"s", "t", "a", "t", "u", "s", "_", "u", "p", "d", "a", "t", "e", "_",
      "e", "v", "e", "n", "t">>

\* allEvents := make(chan *Event, 1)
EventsCap == 1

CRLF == <<"\r", "\n">>

\* unicode.IsSpace for the characters that occur on the stream.
IsSpace(c) == c \in {" ", "\t", "\n", "\r"}

RECURSIVE TrimLeft(_)
TrimLeft(s) == IF s # <<>> /\ IsSpace(Head(s)) THEN TrimLeft(Tail(s)) ELSE s

RECURSIVE TrimRight(_)
TrimRight(s) ==
    IF s # <<>> /\ IsSpace(s[Len(s)]) THEN TrimRight(SubSeq(s, 1, Len(s) - 1)) ELSE s

\* A trimming that leaves the string as it is.
TrimSpace_Identity(s) == s

\* strings.TrimSpace
TrimSpace(s) == TrimRight(TrimLeft(s))

\* The lines the server writes.
HeaderLine(t) == <<"e", "v", "e", "n", "t", ":", " ">> \o t \o CRLF
DataLine(p) == <<"d", "a", "t", "a", ":", " ">> \o p \o CRLF

\* The JSON text of a status update of application id.
Payload(id) ==
    <<"{", "\"", "a", "p", "p", "I", "d", "\"", ":", "\"">> \o id \o <<"\"", "}">>

KeepAlive == <<CRLF>>
FrameOwn == <<HeaderLine(StatusUpdateEvent), DataLine(Payload(appId)), CRLF>>
\* no space after the colon, padding around the values
FrameTight ==
    <<<<"e", ":", " ", "x", " ", " ">> \o CRLF,
      <<"d", ":">> \o Payload(<<"/", "o">>) \o <<"\t">> \o CRLF,
      CRLF>>
\* a header followed by the delimiter: the payload is missing
FrameNoData == <<HeaderLine(<<"x">>), CRLF>>
\* the third line is not a bare CRLF
FrameBadDelim == <<HeaderLine(<<"x">>), DataLine(<<"y">>), <<"z", ":", "\n">>>>
\* a line without a colon
LineNoColon == <<<<"x">> \o CRLF>>
\* bytes that do not end a line
LinePartial == <<<<"e", ":", "x">>>>

ItemUniverse ==
    {KeepAlive, FrameOwn, FrameTight, FrameNoData, FrameBadDelim, LineNoColon,
     LinePartial}

Inputs == UNION {[1..n -> ItemUniverse] : n \in 0..MaxItems}

RECURSIVE Concat(_)
Concat(ss) == IF ss = <<>> THEN <<>> ELSE Head(ss) \o Concat(Tail(ss))

\* The bytes of a sequence of items.
Bytes(items) == Concat([k \in DOMAIN items |-> Concat(items[k])])

\* bufio.Reader.ReadString('\n') on the unread bytes buf of a stream: the
\* line up to and with the first '\n'; when the stream ends first, what is
\* left and an error.
ReadString(buf) ==
    LET i == Index(buf, "\n")
    IN  IF i = 0
        THEN [line |-> buf, rest |-> <<>>, err |-> TRUE]
        ELSE [line |-> SubSeq(buf, 1, i), rest |-> SubSeq(buf, i + 1, Len(buf)),
              err |-> FALSE]

\* ReadString returns: a whole line is there, or the stream has ended (the
\* failing reads followed are at most MaxEofReads); otherwise it blocks.
CanRead ==
    \/ Index(body, "\n") # 0
    \/ closed /\ eofReads < MaxEofReads

\* The process runs: main has not exited and no goroutine has panicked.
Alive == pc # "exited" /\ spc # "panic"

\* A keep-alive test that accepts a bare '\n' only.
IsKeepAlive_LF(line) == line = <<"\n">>

\* eventPart == "\r\n"
IsKeepAlive(line) == line = CRLF

\* Mutant of SendError: a plain send, which waits for the receiver.
SendError_Blocking(kind) ==
    /\ errsReady
    /\ failures' = Append(failures, [kind |-> kind, delivered |-> TRUE])
    /\ errsReady' = FALSE

\* sendError: the error is handed over when the receiver is there, dropped
\* otherwise.
SendError(kind) ==
    /\ failures' = Append(failures, [kind |-> kind, delivered |-> errsReady])
    /\ errsReady' = FALSE

\* the loop is left by continue: the locals of the iteration are gone
Continue ==
    /\ spc' = "header"
    /\ eventType' = <<>>
    /\ data' = <<>>

\* Mutant of ReadHeader: a read error ends the goroutine.
ReadHeader_StopOnError ==
    /\ Alive
    /\ spc = "header"
    /\ CanRead
    /\ \E r \in {ReadString(body)} : \E eventParsed \in {SplitN2(r.line, ":")} :
           /\ body' = r.rest
           /\ IF r.err
              THEN /\ SendError("read")
                   /\ eofReads' = eofReads + 1
                   /\ spc' = "done"
                   /\ UNCHANGED <<eventType, data>>
              ELSE /\ UNCHANGED <<failures, errsReady, eofReads>>
                   /\ IF IsKeepAlive(r.line)
                      THEN Continue
                      ELSE IF Len(eventParsed) < 2
                      THEN spc' = "panic" /\ UNCHANGED <<eventType, data>>
                      ELSE /\ eventType' = TrimSpace(eventParsed[2])
                           /\ spc' = "data"
                           /\ data' = data
    /\ UNCHANGED <<input, closed, events, emitted, ctxDone>>
    /\ UNCHANGED <<rvars, fvars>>

\* Read event header.
ReadHeader ==
    /\ Alive
    /\ spc = "header"
    /\ CanRead
    /\ \E r \in {ReadString(body)} : \E eventParsed \in {SplitN2(r.line, ":")} :
           /\ body' = r.rest
           /\ IF r.err
              THEN /\ SendError("read")
                   /\ eofReads' = eofReads + 1
                   /\ Continue
              ELSE /\ UNCHANGED <<failures, errsReady, eofReads>>
                   /\ IF IsKeepAlive(r.line)
                      THEN Continue
                      ELSE IF Len(eventParsed) < 2
                      THEN spc' = "panic" /\ UNCHANGED <<eventType, data>>
                      ELSE /\ eventType' = TrimSpace(eventParsed[2])
                           /\ spc' = "data"
                           /\ data' = data
    /\ UNCHANGED <<input, closed, events, emitted, ctxDone>>
    /\ UNCHANGED <<rvars, fvars>>

\* Mutant of ReadData: a bare CRLF at the data position is passed over
\* without a report.
ReadData_Silent ==
    /\ Alive
    /\ spc = "data"
    /\ CanRead
    /\ \E r \in {ReadString(body)} : \E dataParsed \in {SplitN2(r.line, ":")} :
           /\ body' = r.rest
           /\ IF r.err
              THEN /\ SendError("read")
                   /\ eofReads' = eofReads + 1
                   /\ Continue
              ELSE /\ eofReads' = eofReads
                   /\ IF r.line = CRLF
                      THEN UNCHANGED <<failures, errsReady>> /\ Continue
                      ELSE /\ UNCHANGED <<failures, errsReady>>
                           /\ IF Len(dataParsed) < 2
                              THEN spc' = "panic" /\ UNCHANGED <<eventType, data>>
                              ELSE /\ data' = TrimSpace(dataParsed[2])
                                   /\ spc' = "delim"
                                   /\ eventType' = eventType
    /\ UNCHANGED <<input, closed, events, emitted, ctxDone>>
    /\ UNCHANGED <<rvars, fvars>>

\* Read data payload.
ReadData ==
    /\ Alive
    /\ spc = "data"
    /\ CanRead
    /\ \E r \in {ReadString(body)} : \E dataParsed \in {SplitN2(r.line, ":")} :
           /\ body' = r.rest
           /\ IF r.err
              THEN /\ SendError("read")
                   /\ eofReads' = eofReads + 1
                   /\ Continue
              ELSE /\ eofReads' = eofReads
                   /\ IF r.line = CRLF
                      THEN SendError("data") /\ Continue
                      ELSE /\ UNCHANGED <<failures, errsReady>>
                           /\ IF Len(dataParsed) < 2
                              THEN spc' = "panic" /\ UNCHANGED <<eventType, data>>
                              ELSE /\ data' = TrimSpace(dataParsed[2])
                                   /\ spc' = "delim"
                                   /\ eventType' = eventType
    /\ UNCHANGED <<input, closed, events, emitted, ctxDone>>
    /\ UNCHANGED <<rvars, fvars>>

\* Mutant of ReadDelim: after a line that is not a bare CRLF the event is
\* given up.
ReadDelim_Drop ==
    /\ Alive
    /\ spc = "delim"
    /\ CanRead
    /\ \E r \in {ReadString(body)} :
           /\ body' = r.rest
           /\ IF r.err
              THEN /\ SendError("read")
                   /\ eofReads' = eofReads + 1
                   /\ Continue
              ELSE /\ eofReads' = eofReads
                   /\ IF r.line # CRLF
                      THEN SendError("delim") /\ Continue
                      ELSE /\ UNCHANGED <<failures, errsReady>>
                           /\ spc' = "select"
                           /\ UNCHANGED <<eventType, data>>
    /\ UNCHANGED <<input, closed, events, emitted, ctxDone>>
    /\ UNCHANGED <<rvars, fvars>>

\* Read CRLF delimiter: a line that is not a bare CRLF is reported and the
\* event is sent all the same.
ReadDelim ==
    /\ Alive
    /\ spc = "delim"
    /\ CanRead
    /\ \E r \in {ReadString(body)} :
           /\ body' = r.rest
           /\ IF r.err
              THEN /\ SendError("read")
                   /\ eofReads' = eofReads + 1
                   /\ Continue
              ELSE /\ eofReads' = eofReads
                   /\ IF r.line # CRLF
                      THEN SendError("delim")
                      ELSE UNCHANGED <<failures, errsReady>>
                   /\ spc' = "select"
                   /\ UNCHANGED <<eventType, data>>
    /\ UNCHANGED <<input, closed, events, emitted, ctxDone>>
    /\ UNCHANGED <<rvars, fvars>>

\* select, case events <- event: the channel has room.  When ctx.Done() is
\* ready too, the select takes either case.
SelectSend ==
    /\ Alive
    /\ spc = "select"
    /\ Len(events) < EventsCap
    /\ events' = Append(events, [Type |-> eventType, Data |-> data])
    /\ emitted' = Append(emitted, [Type |-> eventType, Data |-> data])
    /\ Continue
    /\ UNCHANGED <<input, body, closed, failures, errsReady, ctxDone, eofReads>>
    /\ UNCHANGED <<rvars, fvars>>

\* select, case <-ctx.Done(): the goroutine returns.
SelectDone ==
    /\ Alive
    /\ spc = "select"
    /\ ctxDone
    /\ spc' = "done"
    /\ UNCHANGED <<input, body, closed, eventType, data, events, emitted,
                   failures, errsReady, ctxDone, eofReads>>
    /\ UNCHANGED <<rvars, fvars>>

\* The goroutine draining errs comes (back) to its receive.
ErrsReceive ==
    /\ Alive
    /\ ~errsReady
    /\ errsReady' = TRUE
    /\ UNCHANGED <<input, body, closed, spc, eventType, data, events, emitted,
                   failures, ctxDone, eofReads>>
    /\ UNCHANGED <<rvars, fvars>>

\* filterStatusUpdateEvents takes the next event from the channel.
FilterReceives ==
    /\ Alive
    /\ events # <<>>
    /\ events' = Tail(events)
    /\ UNCHANGED <<input, body, closed, spc, eventType, data, emitted,
                   failures, errsReady, ctxDone, eofReads>>
    /\ UNCHANGED <<rvars, fvars>>

\* Mutant of Cancel: main goes on to log.Fatalf without calling cancel().
Cancel_NoSignal ==
    /\ pc = "fatal"
    /\ spc # "panic"
    /\ pc' = "cancelled"
    /\ UNCHANGED <<recordSetName, recordSetTypes, waitErr, listErr, zone0, zone, app, taskIps, recordSets,
                   changes, calls, result, prev, runs>>
    /\ UNCHANGED <<svars, fvars>>

\* main, a fatal error of updateRecords: cancel() ...
Cancel ==
    /\ pc = "fatal"
    /\ spc # "panic"
    /\ ctxDone' = TRUE
    /\ pc' = "cancelled"
    /\ UNCHANGED <<recordSetName, recordSetTypes, waitErr, listErr, zone0, zone, app, taskIps, recordSets,
                   changes, calls, result, prev, runs>>
    /\ UNCHANGED <<input, body, closed, spc, eventType, data, events, emitted,
                   failures, errsReady, eofReads>>
    /\ UNCHANGED fvars

\* ... and log.Fatalf ends the process.
ExitAfterCancel ==
    /\ pc = "cancelled"
    /\ spc # "panic"
    /\ pc' = "exited"
    /\ UNCHANGED <<recordSetName, recordSetTypes, waitErr, listErr, zone0, zone, app, taskIps, recordSets,
                   changes, calls, result, prev, runs>>
    /\ UNCHANGED <<svars, fvars>>

\* The stream is subscribed to before the first run; the run followed here
\* is the one whose snapshot fetch fails.
InitStream ==
    /\ recordSetName = NameDotted
    /\ recordSetTypes = {WEIGHTED}
    /\ zone = {}
    /\ pc = "fetch"
    /\ app = NoApp
    /\ taskIps = {}
    /\ recordSets = <<>>
    /\ changes = <<>>
    /\ calls = <<>>
    /\ result = "none"
    /\ waitErr = FALSE
    /\ listErr = FALSE
    /\ prev = NoRun
    /\ runs = 1
    /\ input \in Inputs
    /\ body = Bytes(input)
    /\ closed \in BOOLEAN
    /\ spc = "header"
    /\ eventType = <<>>
    /\ data = <<>>
    /\ events = <<>>
    /\ emitted = <<>>
    /\ failures = <<>>
    /\ errsReady = FALSE
    /\ ctxDone = FALSE
    /\ eofReads = 0
    /\ fpc = "recv"
    /\ update = NoUpdate
    /\ received = <<>>
    /\ zone0 = zone

NextStream ==
    \/ ReadHeader
    \/ ReadData
    \/ ReadDelim
    \/ SelectSend
    \/ SelectDone
    \/ ErrsReceive
    \/ FilterReceives
    \/ FetchFails
    \/ Cancel
    \/ ExitAfterCancel

SpecStream == InitStream /\ [][NextStream]_vars

-----------------------------------------------------------------------------
(* The pipeline: getEvents, filterStatusUpdateEvents and the loop of main *)

\* The JSON text of a status update of application id and task t.
PayloadTask(id, t) ==
    <<"{", "\"", "a", "p", "p", "I", "d", "\"", ":", "\"">> \o id
        \o <<"\"", ",", "\"", "t", "a", "s", "k", "I", "d", "\"", ":", "\"">> \o t
        \o <<"\"", "}">>

\* a second status update of the application, of task b
FrameOwnB ==
    <<HeaderLine(StatusUpdateEvent), DataLine(PayloadTask(appId, <<"b">>)), CRLF>>
\* a status update of another application
FrameOther == <<HeaderLine(StatusUpdateEvent), DataLine(Payload(otherAppId)), CRLF>>

PipelineItems == {FrameOwn, FrameOwnB, FrameOther, FrameTight}

PipelineInputs == UNION {[1..n -> PipelineItems] : n \in 0..MaxPipelineItems}

\* The snapshots the runs of the pipeline fetch.
PipelineSnapshots == {App(<<>>), App(<<Task(TaskRunning, <<IP(A10, "IPv4")>>)>>)}

\* F applied to the value of v; v is evaluated once, however often F uses
\* its argument.
Eval(v, F(_)) == CHOOSE r \in {F(x) : x \in {v}} : TRUE

\* A JSON string at the head of s: the text between two quotes (no escapes).
ReadQuoted(s) ==
    Eval(s, LAMBDA t :
        IF t = <<>> \/ t[1] # "\"" THEN [err |-> TRUE, str |-> <<>>, rest |-> <<>>]
        ELSE Eval(Index(Tail(t), "\""), LAMBDA i :
            IF i = 0 THEN [err |-> TRUE, str |-> <<>>, rest |-> <<>>]
            ELSE [err |-> FALSE, str |-> SubSeq(t, 2, i),
                  rest |-> SubSeq(t, i + 2, Len(t))]))

\* The members "key":"value" of a JSON object, separated by commas.
RECURSIVE Members(_)
Members(s) ==
    Eval(ReadQuoted(s), LAMBDA k :
        IF k.err \/ k.rest = <<>> \/ k.rest[1] # ":"
        THEN [err |-> TRUE, fields |-> <<>>]
        ELSE Eval(ReadQuoted(Tail(k.rest)), LAMBDA v :
            IF v.err
            THEN [err |-> TRUE, fields |-> <<>>]
            ELSE IF v.rest = <<>>
            THEN [err |-> FALSE, fields |-> << <<k.str, v.str>> >>]
            ELSE IF v.rest[1] # ","
            THEN [err |-> TRUE, fields |-> <<>>]
            ELSE Eval(Members(Tail(v.rest)), LAMBDA more :
                [err |-> more.err,
                 fields |-> << <<k.str, v.str>> >> \o more.fields])))

\* The value of the member key (the last one wins), "" when there is none.
Field(fields, key) ==
    LET I == {i \in DOMAIN fields : fields[i][1] = key}
    IN  IF I = {} THEN <<>>
        ELSE fields[CHOOSE i \in I : \A j \in I : j <= i][2]

\* json.Unmarshal(e.Data, &update) for objects whose members are strings.
Unmarshal(d) ==
    IF Len(d) < 2 \/ d[1] # "{" \/ d[Len(d)] # "}"
    THEN [err |-> TRUE, AppID |-> <<>>, TaskID |-> <<>>]
    ELSE Eval(SubSeq(d, 2, Len(d) - 1), LAMBDA inner :
             Eval(IF inner = <<>> THEN [err |-> FALSE, fields |-> <<>>]
                  ELSE Members(inner), LAMBDA m :
                 [err |-> m.err,
                  AppID |-> Field(m.fields, <<"a", "p", "p", "I", "d">>),
                  TaskID |-> Field(m.fields, <<"t", "a", "s", "k", "I", "d">>)]))

\* Mutant of FilterRecv: the application of the update is not looked at.
FilterRecv_AnyApp ==
    /\ Alive
    /\ fpc = "recv"
    /\ events # <<>>
    /\ events' = Tail(events)
    /\ \E e \in {Head(events)} : \E u \in {Unmarshal(e.Data)} :
           IF e.Type = StatusUpdateEvent /\ ~u.err
           THEN fpc' = "send" /\ update' = [AppID |-> u.AppID, TaskID |-> u.TaskID]
           ELSE UNCHANGED <<fpc, update>>
    /\ UNCHANGED received
    /\ UNCHANGED <<input, body, closed, spc, eventType, data, emitted,
                   failures, errsReady, ctxDone, eofReads>>
    /\ UNCHANGED rvars

\* Mutant of FilterRecv: every event is dropped.
FilterRecv_DropAll ==
    /\ Alive
    /\ fpc = "recv"
    /\ events # <<>>
    /\ events' = Tail(events)
    /\ UNCHANGED <<fpc, update, received>>
    /\ UNCHANGED <<input, body, closed, spc, eventType, data, emitted,
                   failures, errsReady, ctxDone, eofReads>>
    /\ UNCHANGED rvars

\* Mutant of FilterRecv: the type of the event is not looked at.
FilterRecv_AnyType ==
    /\ Alive
    /\ fpc = "recv"
    /\ events # <<>>
    /\ events' = Tail(events)
    /\ \E e \in {Head(events)} : \E u \in {Unmarshal(e.Data)} :
           IF ~u.err /\ u.AppID = appId
           THEN fpc' = "send" /\ update' = [AppID |-> u.AppID, TaskID |-> u.TaskID]
           ELSE UNCHANGED <<fpc, update>>
    /\ UNCHANGED received
    /\ UNCHANGED <<input, body, closed, spc, eventType, data, emitted,
                   failures, errsReady, ctxDone, eofReads>>
    /\ UNCHANGED rvars

\* filterStatusUpdateEvents, for e := range in: the next raw event; a status
\* update of the application that deserializes is kept for sending, any
\* other event is dropped.
FilterRecv ==
    /\ Alive
    /\ fpc = "recv"
    /\ events # <<>>
    /\ events' = Tail(events)
    /\ \E e \in {Head(events)} : \E u \in {Unmarshal(e.Data)} :
           IF e.Type = StatusUpdateEvent /\ ~u.err /\ u.AppID = appId
           THEN fpc' = "send" /\ update' = [AppID |-> u.AppID, TaskID |-> u.TaskID]
           ELSE UNCHANGED <<fpc, update>>
    /\ UNCHANGED received
    /\ UNCHANGED <<input, body, closed, spc, eventType, data, emitted,
                   failures, errsReady, ctxDone, eofReads>>
    /\ UNCHANGED rvars

\* Mutant of RecvStatusUpdate: main starts the next run without an update.
RecvStatusUpdate_NoUpdate ==
    /\ Alive
    /\ pc = "recv"
    /\ runs <= MaxWakeups
    /\ NextRun
    /\ UNCHANGED <<svars, fvars>>

\* select, case out <- &update, met by update := <-statusUpdateEvents of
\* main (the channel has no buffer): the next run starts.  At most
\* MaxWakeups updates are followed.
RecvStatusUpdate ==
    /\ Alive
    /\ fpc = "send"
    /\ pc = "recv"
    /\ Len(received) < MaxWakeups
    /\ received' = Append(received, update)
    /\ fpc' = "recv"
    /\ update' = NoUpdate
    /\ NextRun
    /\ UNCHANGED svars

\* select, case <-ctx.Done(): the goroutine returns.
FilterDone ==
    /\ Alive
    /\ fpc = "send"
    /\ ctxDone
    /\ fpc' = "done"
    /\ UNCHANGED <<update, received>>
    /\ UNCHANGED <<rvars, svars>>

FetchAppPipeline == FetchAppFrom(PipelineSnapshots)

InitPipeline ==
    /\ recordSetName = NameDotted
    /\ recordSetTypes = {WEIGHTED}
    /\ zone = {}
    /\ zone0 = {}
    /\ pc = "fetch"
    /\ app = NoApp
    /\ taskIps = {}
    /\ recordSets = <<>>
    /\ changes = <<>>
    /\ calls = <<>>
    /\ result = "none"
    /\ waitErr = FALSE
    /\ listErr = FALSE
    /\ prev = NoRun
    /\ runs = 1
    /\ input \in PipelineInputs
    /\ body = Bytes(input)
    /\ closed \in BOOLEAN
    /\ spc = "header"
    /\ eventType = <<>>
    /\ data = <<>>
    /\ events = <<>>
    /\ emitted = <<>>
    /\ failures = <<>>
    /\ errsReady = FALSE
    /\ ctxDone = FALSE
    /\ eofReads = 0
    /\ fpc = "recv"
    /\ update = NoUpdate
    /\ received = <<>>

NextPipeline ==
    \/ ReadHeader
    \/ ReadData
    \/ ReadDelim
    \/ SelectSend
    \/ SelectDone
    \/ FilterRecv
    \/ RecvStatusUpdate
    \/ FilterDone
    \/ FetchFails
    \/ FetchAppPipeline
    \/ ListRecords
    \/ ListFails
    \/ SubmitAccepted
    \/ SubmitRejected
    \/ AwaitChange
    \/ Sleep
    \/ Cancel
    \/ ExitAfterCancel

SpecPipeline == InitPipeline /\ [][NextPipeline]_vars

-----------------------------------------------------------------------------
(* The interval-only loop: the main that reconciles every interval seconds *)

\* The orders in which a range over the map taskIps may visit its addresses.
MapOrders(ips) ==
    {o \in [1..Cardinality(ips) -> ips] : \A i, j \in DOMAIN o : i # j => o[i] # o[j]}

\* The record set upserted for an address: the address is its set identifier.
IntervalRecordSet(name, ip) == ResourceRecordSet(name, ip, 10, <<ip>>)

\* The batch of one iteration: the Deletes in listing order, then one Upsert
\* per address in the order the map is visited.
IntervalChanges(listed, order, name) ==
    DeleteChanges(listed, {order[i] : i \in DOMAIN order})
        \o [i \in DOMAIN order |-> Change("UPSERT", IntervalRecordSet(name, order[i]))]

\* api.getApp fails: log.Fatalf ends the process.
IntervalFetchFails ==
    /\ pc = "fetch"
    /\ result' = "fatal"
    /\ pc' = "exited"
    /\ UNCHANGED <<recordSetName, recordSetTypes, waitErr, listErr, zone0, zone, app, taskIps, recordSets,
                   changes, calls, prev, runs>>
    /\ UNCHANGED <<svars, fvars>>

\* api.getApp returns a snapshot; with no running IPv4 address log.Fatal
\* ends the process.
IntervalFetchApp ==
    /\ pc = "fetch"
    /\ \E a \in Snapshots :
        /\ app' = a
        /\ taskIps' = TaskIps(a.Tasks)
        /\ IF TaskIps(a.Tasks) = {}
           THEN result' = "fatal" /\ pc' = "exited"
           ELSE result' = result /\ pc' = "list"
    /\ UNCHANGED <<recordSetName, recordSetTypes, waitErr, listErr, zone0, zone, recordSets, changes,
                   calls, prev, runs>>
    /\ UNCHANGED <<svars, fvars>>

\* The list call has returned listed; the two loops build the batch.
IntervalAfterList(listed) ==
    /\ \E order \in MapOrders(taskIps) :
           changes' = IntervalChanges(listed, order, recordSetName)
    /\ recordSets' = listed
    /\ calls' = Append(calls, "list")
    /\ pc' = "submit"
    /\ app' = NoApp
    /\ UNCHANGED <<recordSetName, recordSetTypes, waitErr, zone0, zone, taskIps, result, prev, runs>>
    /\ UNCHANGED <<svars, fvars>>

\* r53.ListResourceRecordSets succeeds.
IntervalListRecords ==
    /\ pc = "list"
    /\ IntervalAfterList(ListResourceRecordSets(zone, recordSetName))
    /\ listErr' = FALSE

\* r53.ListResourceRecordSets fails: the error is not looked at.
IntervalListFails ==
    /\ pc = "list"
    /\ IntervalAfterList(<<>>)
    /\ listErr' = TRUE

\* r53.ChangeResourceRecordSets accepts the batch.
IntervalSubmitAccepted ==
    /\ pc = "submit"
    /\ calls' = Append(calls, "change")
    /\ zone' = ChangeResourceRecordSets(zone, changes)
    /\ pc' = "wait"
    /\ UNCHANGED <<recordSetName, recordSetTypes, waitErr, listErr, zone0, app, taskIps, recordSets,
                   changes, result, prev, runs>>
    /\ UNCHANGED <<svars, fvars>>

\* r53.ChangeResourceRecordSets rejects the batch: the error is logged and
\* the loop is left by continue.
IntervalSubmitRejected ==
    /\ pc = "submit"
    /\ calls' = Append(calls, "change")
    /\ result' = "nonfatal"
    /\ pc' = "continue"
    /\ UNCHANGED <<recordSetName, recordSetTypes, waitErr, listErr, zone0, zone, app, taskIps, recordSets,
                   changes, prev, runs>>
    /\ UNCHANGED <<svars, fvars>>

\* continue: the next iteration starts at once (at most MaxRuns iterations
\* are followed).
IntervalContinue ==
    /\ pc = "continue"
    /\ runs < MaxRuns
    /\ NextRun
    /\ UNCHANGED <<svars, fvars>>

\* r53.WaitUntilResourceRecordSetsChanged returns, with an error or without
\* (its error is only logged).
IntervalAwaitChange ==
    /\ pc = "wait"
    /\ calls' = Append(calls, "wait")
    /\ waitErr' \in BOOLEAN
    /\ result' = "ok"
    /\ pc' = "sleep"
    /\ UNCHANGED <<recordSetName, recordSetTypes, listErr, zone0, zone, app, taskIps, recordSets,
                   changes, prev, runs>>
    /\ UNCHANGED <<svars, fvars>>

\* time.Sleep(sleepDuration), and the loop comes round.
IntervalSleep ==
    /\ pc = "sleep"
    /\ runs < MaxRuns
    /\ NextRun
    /\ UNCHANGED <<svars, fvars>>

\* This main has one strategy, the weighted one, and no event stream.
InitInterval ==
    /\ Init
    /\ recordSetTypes = {WEIGHTED}

NextInterval ==
    \/ IntervalFetchFails
    \/ IntervalFetchApp
    \/ IntervalListRecords
    \/ IntervalListFails
    \/ IntervalSubmitAccepted
    \/ IntervalSubmitRejected
    \/ IntervalContinue
    \/ IntervalAwaitChange
    \/ IntervalSleep

SpecInterval == InitInterval /\ [][NextInterval]_vars

-----------------------------------------------------------------------------
(* The pipeline on events the classifier has to drop *)

\* a status update whose payload is cut short: it does not deserialize
FrameBadJson ==
    <<HeaderLine(StatusUpdateEvent),
      DataLine(<<"{", "\"", "a", "p", "p", "I", "d", "\"", ":", "\"">> \o appId \o <<"\"">>),
      CRLF>>
\* an event of another type that names the application
FrameOtherType == <<HeaderLine(<<"x">>), DataLine(Payload(appId)), CRLF>>

ClassifierItems == {FrameOwn, FrameOther, FrameBadJson, FrameOtherType}

ClassifierInputs == UNION {[1..n -> ClassifierItems] : n \in 0..MaxPipelineItems}

\* The state before the first run, the stream being one of streams: the
\* subscription is made, nothing is read yet.
InitFrom(streams) ==
    /\ input \in streams
    /\ body = Bytes(input)
    /\ closed \in BOOLEAN
    /\ recordSetName = NameDotted
    /\ recordSetTypes = {WEIGHTED}
    /\ zone = {}
    /\ zone0 = {}
    /\ pc = "fetch"
    /\ app = NoApp
    /\ taskIps = {}
    /\ recordSets = <<>>
    /\ changes = <<>>
    /\ calls = <<>>
    /\ result = "none"
    /\ waitErr = FALSE
    /\ listErr = FALSE
    /\ prev = NoRun
    /\ runs = 1
    /\ spc = "header"
    /\ eventType = <<>>
    /\ data = <<>>
    /\ events = <<>>
    /\ emitted = <<>>
    /\ failures = <<>>
    /\ errsReady = FALSE
    /\ ctxDone = FALSE
    /\ eofReads = 0
    /\ fpc = "recv"
    /\ update = NoUpdate
    /\ received = <<>>

InitClassifier == InitFrom(ClassifierInputs)

SpecClassifier == InitClassifier /\ [][NextPipeline]_vars

-----------------------------------------------------------------------------
(* The parser after a frame that does not end with a bare CRLF *)

\* a header and a data line with no delimiter line after them: the next
\* line of the stream is read at the third position
FrameNoDelim == <<HeaderLine(<<"x">>), DataLine(<<"y">>)>>

ResyncItems == {KeepAlive, FrameOwn, FrameBadDelim, FrameNoDelim}

ResyncInputs == UNION {[1..n -> ResyncItems] : n \in 0..MaxItems}

InitResync == InitFrom(ResyncInputs)

SpecResync == InitResync /\ [][NextStream]_vars

-----------------------------------------------------------------------------
(* The parser on a stream that ends *)

\* a header line and nothing after it
FrameNoPayload == <<HeaderLine(<<"x">>)>>

\* The stream ends at the header position (after a whole frame), inside a
\* line, at the data position or at the delimiter position.
EofItems == {FrameOwn, LinePartial, FrameNoPayload, FrameNoDelim}

EofInputs == UNION {[1..n -> EofItems] : n \in 0..MaxItems}

InitEof == InitFrom(EofInputs)

SpecEof == InitEof /\ [][NextStream]_vars

-----------------------------------------------------------------------------
(* Properties of updateRecords *)

\* The run at hand has built its batch (and has not been replaced by the next).
BatchBuilt == pc \in {"submit", "wait", "sleep", "recv"}

\* updateRecords has returned.
Returned == result # "none"

\* The elements of a sequence.
Range(seq) == {seq[i] : i \in DOMAIN seq}

\* The address values held by a set of record sets.
AddressValues(z) == UNION {Range(r.ResourceRecords) : r \in z}

\* C1 (convergence, weighted strategy): applying the batch of a run to the
\* record sets R that the list operation returned to it leaves address
\* values that are exactly the desired set: every desired address is there
\* and no value outside the desired set remains.
C1_Convergence ==
    (BatchBuilt /\ WEIGHTED \in recordSetTypes)
        => AddressValues(ChangeResourceRecordSets(Range(recordSets), changes)) = taskIps

\* The same statement for listed record sets that hold at most one value.
ConvergenceSingleValued ==
    (/\ BatchBuilt
     /\ WEIGHTED \in recordSetTypes
     /\ \A r \in Range(recordSets) : Len(r.ResourceRecords) <= 1)
        => AddressValues(ChangeResourceRecordSets(Range(recordSets), changes)) = taskIps

\* No task of the snapshot is running with an IPv4 address.
NoRunningIPv4(tasks) ==
    \A i \in DOMAIN tasks :
        \/ tasks[i].State # TaskRunning
        \/ \A j \in DOMAIN tasks[i].IPAddresses :
               tasks[i].IPAddresses[j].Protocol # "IPv4"

\* C2 (empty-set rejection): a run whose snapshot has no running task with
\* an IPv4 address returns a fatal error and has invoked no operation of the
\* DNS provider (no list, no batch change, no await).
C2_EmptySetRejection ==
    (app.ok /\ NoRunningIPv4(app.Tasks))
        => (result = "fatal" /\ calls = <<>> /\ pc \in {"fatal", "exited"})

\* C2 witness: a snapshot that lists tasks, none of them running with an
\* IPv4 address, has ended the process.
C2_Witness ==
    /\ app.ok
    /\ Len(app.Tasks) > 0
    /\ NoRunningIPv4(app.Tasks)
    /\ pc = "exited"

\* C3 (idempotence): a run that follows an accepted run with the same
\* desired set (so that the zone it lists is the result of that run's batch)
\* schedules no Delete, and its Upserts are those of the earlier run, record
\* set for record set (name, value, weight, set identifier) in the same order.
C3_Idempotence ==
    (BatchBuilt /\ prev # NoRun /\ prev.taskIps = taskIps)
        => /\ WithAction(changes, "DELETE") = <<>>
           /\ WithAction(changes, "UPSERT") = prev.upserts

\* C3 witness: the second of two runs with the same two or more addresses
\* has listed a non-empty zone and built its batch.
C3_Witness ==
    /\ pc = "submit"
    /\ prev # NoRun
    /\ prev.taskIps = taskIps
    /\ Cardinality(taskIps) >= 2
    /\ Len(recordSets) >= 2
    /\ Len(changes) >= 2

\* The number of desired addresses that sort before a.
Rank(a, D) == Cardinality({b \in D : StrLess(b, a)})

\* name is prefix.suffix, split at its first ".".
SplitsAs(name, prefix, suffix) ==
    /\ name = prefix \o <<".">> \o suffix
    /\ \A i \in DOMAIN prefix : prefix[i] # "."

\* The enumerated upserts of a batch (the record sets without set identifier).
EnumeratedUpserts(chs) ==
    SelectSeq(chs, LAMBDA c : c.Action = "UPSERT" /\ c.ResourceRecordSet.SetIdentifier = <<>>)

\* C4 (enumerated ordering): with the enumerated strategy and a record name
\* prefix.suffix (split at the first "."), the batch holds one enumerated
\* upsert per desired address, and the address with idx addresses sorting
\* before it is upserted under prefix-(idx+1).suffix; so the three addresses
\* 1.5, 1.1, 1.10 under sv.e.x give sv-1.e.x -> 1.1, sv-2.e.x -> 1.10,
\* sv-3.e.x -> 1.5.
C4_EnumeratedOrdering ==
    LET e == EnumeratedUpserts(changes)
        prefix == <<"s", "v">>
        suffix == <<"e", ".", "x">>
    IN  (/\ BatchBuilt
         /\ ENUMERATED \in recordSetTypes
         /\ SplitsAs(recordSetName, prefix, suffix))
            => /\ Len(e) = Cardinality(taskIps)
               /\ \A a \in taskIps : \E k \in DOMAIN e :
                      /\ e[k].ResourceRecordSet.ResourceRecords = <<a>>
                      /\ e[k].ResourceRecordSet.Name =
                             prefix \o <<"-">> \o <<Digit(Rank(a, taskIps) + 1)>>
                                    \o <<".">> \o suffix
               /\ taskIps = {A1, A10, A5} =>
                      [k \in DOMAIN e |-> <<e[k].ResourceRecordSet.Name,
                                            e[k].ResourceRecordSet.ResourceRecords>>]
                        = << <<(<<"s", "v", "-", "1", ".", "e", ".", "x">>), <<A1>> >>,
                             <<(<<"s", "v", "-", "2", ".", "e", ".", "x">>), <<A10>> >>,
                             <<(<<"s", "v", "-", "3", ".", "e", ".", "x">>), <<A5>> >> >>

\* C4 witness: a batch for the three addresses under the enumerated strategy.
C4_Witness ==
    /\ pc = "submit"
    /\ ENUMERATED \in recordSetTypes
    /\ taskIps = {A1, A10, A5}
    /\ Len(EnumeratedUpserts(changes)) = 3

\* C5 (malformed separator rejection), as claimed: with the enumerated
\* strategy and a record name without ".", updateRecords returns a fatal
\* error having invoked no operation of the DNS provider.
C5_MalformedSeparatorRejection ==
    (/\ Returned
     /\ ENUMERATED \in recordSetTypes
     /\ \A i \in DOMAIN recordSetName : recordSetName[i] # ".")
        => (result = "fatal" /\ calls = <<>>)

\* The weighted upserts of a batch (the record sets with a weight).
WeightedUpserts(chs) ==
    SelectSeq(chs, LAMBDA c : c.Action = "UPSERT" /\ c.ResourceRecordSet.Weight # 0)

\* C6 (stable identifiers): with the weighted strategy a batch holds one
\* weighted upsert per desired address, and the weighted upserts of an
\* address in two runs (whatever else the two desired sets hold) carry the
\* same set identifier and the same name.
C6_StableIdentifiers ==
    (BatchBuilt /\ WEIGHTED \in recordSetTypes)
        => LET w == WeightedUpserts(changes)
               v == WeightedUpserts(prev.upserts)
           IN  /\ \A a \in taskIps :
                      Cardinality({k \in DOMAIN w :
                          w[k].ResourceRecordSet.ResourceRecords = <<a>>}) = 1
               /\ \A k \in DOMAIN w : \A j \in DOMAIN v :
                      w[k].ResourceRecordSet.ResourceRecords
                          = v[j].ResourceRecordSet.ResourceRecords
                      => /\ w[k].ResourceRecordSet.SetIdentifier
                              = v[j].ResourceRecordSet.SetIdentifier
                         /\ w[k].ResourceRecordSet.Name = v[j].ResourceRecordSet.Name

\* C6 witness: two runs with different desired sets that share an address,
\* which is at different positions of the two sorted lists.
C6_Witness ==
    /\ pc = "submit"
    /\ WEIGHTED \in recordSetTypes
    /\ prev.taskIps = {A10}
    /\ taskIps = {A1, A10}

\* Every Delete of the batch comes before every Upsert.
DeletesFirst(chs) ==
    \A i, j \in DOMAIN chs :
        (chs[i].Action = "DELETE" /\ chs[j].Action = "UPSERT") => i < j

\* C10 (batch ordering), as claimed: a run that has reached the provider
\* and has returned has submitted exactly one batch change, in which every
\* Delete precedes every Upsert.
C10_BatchOrdering ==
    (Returned /\ calls # <<>>)
        => /\ Cardinality({i \in DOMAIN calls : calls[i] = "change"}) = 1
           /\ DeletesFirst(changes)

-----------------------------------------------------------------------------
(* The event stream: what the parser is expected to do *)

\* The text of a line after its first ':'.
AfterFirstColon(line) ==
    LET i == CHOOSE i \in 1..Len(line) :
                 line[i] = ":" /\ \A j \in 1..(i - 1) : line[j] # ":"
    IN  SubSeq(line, i + 1, Len(line))

\* s without the white space at its two ends.
Trimmed(s) ==
    LET White == {" ", "\t", "\r", "\n"}
        lo == CHOOSE i \in DOMAIN s :
                  s[i] \notin White /\ \A j \in 1..(i - 1) : s[j] \in White
        hi == CHOOSE i \in DOMAIN s :
                  s[i] \notin White /\ \A j \in (i + 1)..Len(s) : s[j] \in White
    IN  IF \A i \in DOMAIN s : s[i] \in White THEN <<>> ELSE SubSeq(s, lo, hi)

\* A line 'field: value' ended by CRLF.
FieldLine(line) ==
    /\ Len(line) >= 3
    /\ \E i \in 1..Len(line) : line[i] = ":"
    /\ line[Len(line) - 1] = "\r"
    /\ line[Len(line)] = "\n"

\* A header line, a data line, a bare CRLF line.
WellFormedFrame(item) ==
    /\ Len(item) = 3
    /\ FieldLine(item[1])
    /\ FieldLine(item[2])
    /\ item[3] = <<"\r", "\n">>

\* The raw event of a well-formed frame.
ExpectedEvent(item) ==
    [Type |-> Trimmed(AfterFirstColon(item[1])),
     Data |-> Trimmed(AfterFirstColon(item[2]))]

\* The number of bytes of a sequence of lines, of a sequence of items.
RECURSIVE LinesLen(_)
LinesLen(lines) == IF lines = <<>> THEN 0 ELSE Len(Head(lines)) + LinesLen(Tail(lines))

RECURSIVE ItemsLen(_)
ItemsLen(items) == IF items = <<>> THEN 0 ELSE LinesLen(Head(items)) + ItemsLen(Tail(items))

\* The items whose bytes the parser has read to the end.
ItemsRead ==
    LET n == ItemsLen(input) - Len(body)
        K == {k \in 0..Len(input) : ItemsLen(SubSeq(input, 1, k)) <= n}
    IN  SubSeq(input, 1, CHOOSE k \in K : \A j \in K : j <= k)

\* The raw events of the well-formed frames read to the end, in order.
ExpectedEvents ==
    LET frames == SelectSeq(ItemsRead, WellFormedFrame)
    IN  [k \in DOMAIN frames |-> ExpectedEvent(frames[k])]

\* The event the parser holds at its select, sent or given up at cancellation.
Pending ==
    IF spc \in {"select", "done"}
    THEN <<[Type |-> eventType, Data |-> data]>>
    ELSE <<>>

\* The stream holds keep-alives and well-formed frames only.
FramedInput ==
    \A k \in DOMAIN input : input[k] = KeepAlive \/ WellFormedFrame(input[k])

\* C7 (stream framing): on a stream of well-formed frames (and keep-alives),
\* each frame read to the end yields exactly one raw event, in order: its
\* type is the trimmed text after the first ':' of the header line, its
\* payload the trimmed text after the first ':' of the data line (further
\* colons stay in the payload).  The event is on the channel, or held at the
\* select; no parse failure is reported and the parser does not stop.
C7_StreamFraming ==
    FramedInput =>
        /\ emitted \o Pending = ExpectedEvents
        /\ spc # "panic"
        /\ \A i \in DOMAIN failures : failures[i].kind = "read"

\* Two frames have been read and sent: the payloads keep their colons, the
\* padding around the values is gone.
C7_Witness ==
    /\ input = <<FrameOwn, FrameTight>>
    /\ emitted =
         <<[Type |-> StatusUpdateEvent,
            Data |-> <<"{", "\"", "a", "p", "p", "I", "d", "\"", ":", "\"",
                       "/", "m", "\"", "}">>],
           [Type |-> <<"x">>,
            Data |-> <<"{", "\"", "a", "p", "p", "I", "d", "\"", ":", "\"",
                       "/", "o", "\"", "}">>]>>
    /\ spc = "header"

\* The stream holds keep-alives only.
KeepAliveOnly == \A k \in DOMAIN input : input[k] = KeepAlive

\* The stream is some keep-alives and then one well-formed frame.
KeepAlivesThenFrame ==
    /\ Len(input) >= 2
    /\ \A k \in 1..(Len(input) - 1) : input[k] = KeepAlive
    /\ WellFormedFrame(input[Len(input)])

KeepAliveState ==
    /\ KeepAliveOnly =>
         /\ emitted = <<>>
         /\ events = <<>>
         /\ spc = "header"
         /\ \A i \in DOMAIN failures : failures[i].kind = "read"
         /\ failures # <<>> => closed /\ body = <<>>
    /\ KeepAlivesThenFrame /\ body = <<>> =>
         /\ emitted \o Pending = <<ExpectedEvent(input[Len(input)])>>
         /\ failures # <<>> => closed /\ spc = "header"

\* A step that reads a bare CRLF at the header position.
KeepAliveStep ==
    /\ spc = "header"
    /\ Len(body) >= 2
    /\ body[1] = "\r"
    /\ body[2] = "\n"
    /\ body' # body
    => /\ body' = SubSeq(body, 3, Len(body))
       /\ spc' = "header"
       /\ emitted' = emitted
       /\ events' = events
       /\ failures' = failures

\* C8 (keep-alive resilience): a bare CRLF line read at the header position
\* yields no event and no failure and leaves the parser at the header
\* position; a stream of bare CRLF lines yields no event and no parse
\* failure (only the end of the stream is reported); keep-alives before a
\* well-formed frame leave that frame's event as it is.
C8_KeepAliveResilience == [](KeepAliveState) /\ [][KeepAliveStep]_vars

\* Two keep-alives and a frame have been read; the frame's event was sent.
C8_Witness ==
    /\ input = <<KeepAlive, KeepAlive, FrameOwn>>
    /\ body = <<>>
    /\ emitted = <<ExpectedEvent(FrameOwn)>>
    /\ failures = <<>>

\* C9 (cancellation): once cancel() has been called, the parser sends no
\* further event on the events channel.
C9_Cancellation == [][ctxDone => emitted' = emitted]_vars

-----------------------------------------------------------------------------
(* The reconciliation run and the driver, continued *)

\* The change call was the last operation of the run and the run is not
\* awaiting the change: the provider has rejected the batch.
BatchRejected ==
    /\ calls # <<>>
    /\ calls[Len(calls)] = "change"
    /\ pc # "wait"

RejectedState ==
    BatchRejected =>
        /\ result = "nonfatal"
        /\ \A i \in DOMAIN calls : calls[i] # "wait"
        /\ pc \in {"sleep", "recv"}

RejectedStep ==
    (BatchRejected /\ pc' # pc) =>
        \/ pc = "sleep" /\ pc' = "recv" /\ calls' = calls /\ zone' = zone
        \/ /\ pc = "recv"
           /\ pc' = "fetch"
           /\ runs' = runs + 1
           /\ app' = NoApp
           /\ taskIps' = {}
           /\ calls' = <<>>
           /\ zone' = zone

\* C12 (batch rejection is non-fatal): when the provider rejects the batch,
\* updateRecords returns a non-fatal error without the await call; the
\* process goes on to its sleep and its wait for an event, and the wakeup
\* starts a new run that holds nothing of the old one (its snapshot is
\* fetched anew).
C12_BatchRejectionNonFatal == [](RejectedState) /\ [][RejectedStep]_vars

\* The run after a rejected batch has fetched its own snapshot.
C12_Witness ==
    /\ runs = 2
    /\ prev = NoRun
    /\ pc = "list"
    /\ app.ok
    /\ calls = <<>>

\* name is an enumerated name derived from base: the first label of base,
\* "-", a number from 1 on, and the rest of base.
DerivedName(name, base) ==
    \E i \in DOMAIN base : \E n \in 1..9 :
        /\ base[i] = "."
        /\ \A j \in 1..(i - 1) : base[j] # "."
        /\ name = SubSeq(base, 1, i - 1) \o <<"-", Digit(n)>> \o SubSeq(base, i, Len(base))

\* C16 (no stale enumerated entries), as claimed: with the enumerated
\* strategy, from an empty zone and through accepted runs, the enumerated
\* names of the zone after a run are exactly prefix-1 .. prefix-|D| with the
\* sorted addresses of that run's desired set D.
C16_NoStaleEnumerated ==
    (/\ zone0 = {}
     /\ ENUMERATED \in recordSetTypes
     /\ SplitsAs(recordSetName, <<"s", "v">>, <<"e", ".", "x">>)
     /\ result = "ok"
     /\ runs = 1 \/ prev # NoRun)
        => {r \in zone : DerivedName(r.Name, recordSetName)}
             = {[Name |-> <<"s", "v", "-", Digit(Rank(a, taskIps) + 1), ".", "e", ".", "x">>,
                 SetIdentifier |-> <<>>, Weight |-> 0, TTL |-> 60,
                 ResourceRecords |-> <<a>>] : a \in taskIps}

\* The listed record sets that the delete rule names: at least one value,
\* and the (first) value is not a desired address.
Stale(listed, D) ==
    {r \in Range(listed) : r.ResourceRecords # <<>> /\ r.ResourceRecords[1] \notin D}

\* C17 (delete rule): the Deletes of a batch are exactly the listed record
\* sets that hold a value, the value not being a desired address; each is
\* deleted once and as the provider returned it; a listed record set
\* without values is not deleted.
C17_DeleteRule ==
    BatchBuilt =>
        LET d == WithAction(changes, "DELETE")
        IN  /\ {d[i].ResourceRecordSet : i \in DOMAIN d} = Stale(recordSets, taskIps)
            /\ Len(d) = Cardinality(Stale(recordSets, taskIps))
            /\ \A i \in DOMAIN d : d[i].ResourceRecordSet.ResourceRecords # <<>>

\* A run has listed a record set without values and a stale one, and has
\* scheduled one Delete.
C17_Witness ==
    /\ pc = "submit"
    /\ \E i \in DOMAIN recordSets : recordSets[i].ResourceRecords = <<>>
    /\ Len(WithAction(changes, "DELETE")) = 1
    /\ Len(recordSets) = 2

\* C18 (delete scope), as claimed: every Delete of a batch is for a record
\* set named as configured or by an enumerated name derived from that name.
C18_DeleteScope ==
    BatchBuilt =>
        \A i \in DOMAIN changes :
            changes[i].Action = "DELETE" =>
                \/ changes[i].ResourceRecordSet.Name = recordSetName
                \/ DerivedName(changes[i].ResourceRecordSet.Name, recordSetName)

\* The weighted upserts of a batch for the address a.
WeightedUpsertsOf(chs, a) ==
    {k \in DOMAIN chs :
        /\ chs[k].Action = "UPSERT"
        /\ chs[k].ResourceRecordSet.Weight # 0
        /\ chs[k].ResourceRecordSet.ResourceRecords = <<a>>}

C20_DesiredSetDerivation ==
    app.ok =>
        taskIps = {a \in Addresses :
                     \E i \in DOMAIN app.Tasks :
                         /\ app.Tasks[i].State = "TASK_RUNNING"
                         /\ \E j \in DOMAIN app.Tasks[i].IPAddresses :
                                /\ app.Tasks[i].IPAddresses[j].Protocol = "IPv4"
                                /\ app.Tasks[i].IPAddresses[j].IPAddress = a}

\* The second run's snapshot holds a killed task and an IPv6 address, both
\* of 1.10, which was the desired set of the first run.
C20_Witness ==
    /\ runs = 2
    /\ prev.taskIps = {A10}
    /\ app.ok
    /\ app.Tasks = <<Task(TaskRunning, <<IP(A10, "IPv6"), IP(A1, "IPv4")>>),
                     Task(TaskKilled, <<IP(A10, "IPv4")>>)>>
    /\ taskIps = {A1}

-----------------------------------------------------------------------------
(* The pipeline: what is expected of it *)

FatalState ==
    /\ pc = "exited" => ctxDone
    /\ result = "fatal" => pc \in {"fatal", "cancelled", "exited"}

FatalStep ==
    result = "fatal" =>
        /\ result' = "fatal"
        /\ calls' = calls
        /\ app' = app
        /\ zone' = zone
        /\ runs' = runs

C13_StreamErrorsNeverStop == spc # "panic"

\* The status updates that occur on the stream.
UpdateUniverse ==
    {[AppID |-> a, TaskID |-> t] : a \in {appId, otherAppId}, t \in {<<>>, <<"b">>}}

\* The JSON text of an update.
Encode(u) ==
    IF u.TaskID = <<>> THEN Payload(u.AppID) ELSE PayloadTask(u.AppID, u.TaskID)

\* The updates that a frame stands for: it is well-formed, of the
\* status-update type, its payload is the text of an update, and the update
\* is addressed to the application.
RelevantUpdatesOf(item) ==
    LET e == ExpectedEvent(item)
    IN  IF ~WellFormedFrame(item) \/ e.Type # StatusUpdateEvent THEN {}
        ELSE {u \in UpdateUniverse : e.Data = Encode(u) /\ u.AppID = appId}

\* The relevant updates of the stream, in stream order.
RelevantUpdates ==
    LET rel == [k \in DOMAIN input |-> RelevantUpdatesOf(input[k])]
        keep == SelectSeq([k \in DOMAIN input |-> k], LAMBDA k : rel[k] # {})
    IN  [j \in DOMAIN keep |-> CHOOSE u \in rel[keep[j]] : TRUE]

\* The update the classifier holds at its select.
Held == IF fpc \in {"send", "done"} THEN <<update>> ELSE <<>>

IsPrefix(p, q) == Len(p) <= Len(q) /\ \A i \in DOMAIN p : p[i] = q[i]

\* C14 (event ordering): on a stream of well-formed frames, the updates main
\* has received, followed by the one the classifier holds, are the first
\* relevant updates of the stream, in stream order, each once; the raw
\* events wait in the channel in the order they were sent, which is the
\* stream order.
C14_EventOrdering ==
    FramedInput =>
        /\ IsPrefix(received \o Held, RelevantUpdates)
        /\ Len(events) <= Len(emitted)
        /\ events = SubSeq(emitted, Len(emitted) - Len(events) + 1, Len(emitted))
        /\ emitted \o Pending = ExpectedEvents

\* Two updates of the application have been received in stream order.
C14_Witness ==
    /\ input = <<FrameOwn, FrameOwnB>>
    /\ received = <<[AppID |-> appId, TaskID |-> <<>>],
                    [AppID |-> appId, TaskID |-> <<"b">>]>>

\* A step of the parser task, a step of the classifier task.
ParserStep == ReadHeader \/ ReadData \/ ReadDelim \/ SelectSend \/ SelectDone
ClassifierStep == FilterRecv \/ RecvStatusUpdate \/ FilterDone

\* C15 (cancellation propagation), as claimed: after the signal is raised,
\* and while the process lives, each of the two tasks has returned or can
\* take a step (it is not blocked for good).  States where the parser stands
\* still only because the failed reads of a closed stream are counted up to
\* MaxEofReads are left out.
C15_CancellationPropagation ==
    (ctxDone /\ pc = "cancelled" /\ eofReads < MaxEofReads) =>
        /\ spc = "done" \/ ENABLED ParserStep
        /\ fpc = "done" \/ ENABLED ClassifierStep

-----------------------------------------------------------------------------
(* Failures of the snapshot fetch, the wakeups of the driver *)

\* A step that leaves the fetch without a snapshot: client.Application failed.
FetchFailedStep == pc = "fetch" /\ pc' # "fetch" /\ ~app'.ok

\* The run has returned the fatal error of a failed fetch.
FetchFailed == result = "fatal" /\ ~app.ok /\ calls = <<>>

\* C21 (snapshot failure is fatal): the step on which the snapshot fetch fails
\* leaves the fatal result with no provider operation invoked and the zone as
\* it was, and nothing but the end of the process follows it.
C21_SnapshotFailureFatal ==
    [][/\ FetchFailedStep =>
            /\ result' = "fatal"
            /\ pc' = "fatal"
            /\ calls' = <<>>
            /\ zone' = zone
       /\ FetchFailed =>
            /\ pc \in {"fatal", "exited"}
            /\ pc' = "exited"
            /\ calls' = calls
            /\ zone' = zone
            /\ result' = result]_vars

\* The fetch of a second run has failed, after a first run that changed the zone.
C21_Witness ==
    /\ FetchFailed
    /\ runs = 2
    /\ zone # zone0

\* C22 (driver loop wakeups): the first run starts with no update received;
\* every later run is started by the step that receives one update of the
\* monitored application, taken while main waits after its sleep, and an
\* update is received on no other step.
WakeupStep ==
    /\ pc = "recv"
    /\ fpc = "send"
    /\ update.AppID = appId
    /\ runs' = runs + 1
    /\ received' = Append(received, update)
    /\ pc' = "fetch"

C22_DriverLoopWakeups ==
    /\ [](/\ runs = Len(received) + 1
          /\ \A i \in DOMAIN received : received[i].AppID = appId)
    /\ [][(runs' # runs \/ received' # received) => WakeupStep]_vars

\* The second run, woken by the application's update that followed the
\* update of another application, has come to its sleep.
C22_Witness ==
    /\ input = <<FrameOther, FrameOwn>>
    /\ runs = 2
    /\ received = <<[AppID |-> appId, TaskID |-> <<>>]>>
    /\ pc = "sleep"

\* The run at hand has sent its batch-change request.
ChangeSent == "change" \in Range(calls)

\* C23 (rate floor on every path): a run sends at most one batch-change
\* request; the run that has sent one is left only from the sleep of main, or
\* from the wait for an update that only the sleep leads to.  So the sleep
\* lies between any two consecutive batch-change requests.
RateFloorStep ==
    /\ (Len(calls') = Len(calls) + 1 /\ calls'[Len(calls')] = "change") => ~ChangeSent
    /\ (ChangeSent /\ runs' # runs) => pc \in {"sleep", "recv"}
    /\ (pc' = "recv" /\ pc # "recv") => pc = "sleep"

C23_RateFloor == [][RateFloorStep]_vars

-----------------------------------------------------------------------------
(* The pipeline under fair scheduling *)

\* A step of main.
DriverStep ==
    \/ FetchFails
    \/ FetchAppPipeline
    \/ ListRecords
    \/ ListFails
    \/ SubmitAccepted
    \/ SubmitRejected
    \/ AwaitChange
    \/ Sleep
    \/ RecvStatusUpdate
    \/ Cancel
    \/ ExitAfterCancel

\* The streams followed under fair scheduling: status updates of the
\* application and of another one.
FairItems == {FrameOwn, FrameOther}

FairInputs == UNION {[1..n -> FairItems] : n \in 0..MaxPipelineItems}

InitPipelineFair == InitFrom(FairInputs)

\* The Go scheduler runs every goroutine that can run: the parser, the
\* classifier and main each take a step when one stays possible.  Which way
\* a call or a select goes is not constrained.
SpecPipelineFair ==
    /\ InitPipelineFair
    /\ [][NextPipeline]_vars
    /\ WF_vars(ParserStep)
    /\ WF_vars(ClassifierStep)
    /\ WF_vars(DriverStep)

\* A raw event that is a status update of the monitored application.
RelevantEvent(e) ==
    /\ e.Type = StatusUpdateEvent
    /\ \E u \in UpdateUniverse : u.AppID = appId /\ e.Data = Encode(u)

\* The parser has produced a relevant event that has not woken main yet: it
\* waits in the channel, or the classifier holds its update.
RelevantInFlight ==
    \/ fpc = "send"
    \/ \E i \in DOMAIN events : RelevantEvent(events[i])

\* main is in a run or in its sleep.
Busy == pc \in {"fetch", "list", "submit", "wait", "sleep"}

\* The process is ending on a fatal error.
Ending == pc \in {"fatal", "cancelled", "exited"}

\* C24 (no lost wakeup): when a relevant event has been produced while main
\* is in run r or in the sleep after it, a later run starts (its fetch comes
\* after the event), unless a fatal error ends the process.  The runs
\* followed are those that MaxWakeups allows to be woken.
C24_NoLostWakeup ==
    \A r \in 1..MaxWakeups :
        (RelevantInFlight /\ Busy /\ runs = r) ~> (runs > r \/ Ending)

\* A second update of the application waits while the second run sleeps.
C24_Witness ==
    /\ fpc = "send"
    /\ pc = "sleep"
    /\ runs = 2
    /\ Len(received) = 1

\* Two relevant events have piled up behind main: the classifier holds the
\* update of one, the other waits in the channel, and the stream has no
\* further relevant event.
Backlog ==
    /\ fpc = "send"
    /\ \E i \in DOMAIN events : RelevantEvent(events[i])
    /\ Len(RelevantUpdates) = Len(received) + 2

\* C25 (backlog collapse), as claimed: when two relevant events have piled up
\* while main is in run r or in the sleep after it, one run more is started
\* and no further one.
C25_BacklogCollapse ==
    \A r \in 1..MaxWakeups :
        []((Backlog /\ Busy /\ runs = r) => [](runs <= r + 1))

-----------------------------------------------------------------------------
(* The classifier and the error paths of the parser *)

\* The step on which the classifier takes the next raw event.
TakesEvent == fpc = "recv" /\ events # <<>> /\ events' = Tail(events)

\* C26 (classifier filter): the classifier forwards the raw event it takes if
\* and only if the event is of the status-update type and its payload is the
\* text of an update of the monitored application, and then it forwards that
\* update; any other event is dropped and the classifier is back at its
\* receive.  It returns on cancellation only, and it can take the next event
\* whenever one waits.
C26_ClassifierFilter ==
    /\ [][TakesEvent =>
            IF RelevantEvent(Head(events))
            THEN /\ fpc' = "send"
                 /\ update' \in UpdateUniverse
                 /\ update'.AppID = appId
                 /\ Encode(update') = Head(events).Data
            ELSE /\ fpc' = "recv"
                 /\ update' = NoUpdate]_vars
    /\ [](fpc = "done" => ctxDone)
    /\ []((Alive /\ fpc = "recv" /\ events # <<>>) => ENABLED FilterRecv)

\* After a status update whose payload does not deserialize, the update of
\* the application that came next has woken main.
C26_Witness ==
    /\ input = <<FrameBadJson, FrameOwn>>
    /\ Len(emitted) = 2
    /\ received = <<[AppID |-> appId, TaskID |-> <<>>]>>

\* The line the next read returns, when a whole line is there.
LineAhead == SubSeq(body, 1, Index(body, "\n"))

\* The parser reads a line (the reads are the only steps that take bytes).
Reads == Alive /\ body' # body

\* The last failure offered on the error channel is of the given kind, and
\* it is the only one this step has added.
OffersOne(kind) ==
    /\ Len(failures') = Len(failures) + 1
    /\ SubSeq(failures', 1, Len(failures)) = failures
    /\ failures'[Len(failures')].kind = kind

\* C27 (missing payload): when the line read at the data position is exactly
\* CRLF, no event is emitted for the frame (the type read from its header is
\* given up), one parse failure is offered on the error channel, and the
\* parser is at the header position with the line after the CRLF next.
C27_MissingPayload ==
    [][(spc = "data" /\ Reads /\ LineAhead = CRLF) =>
            /\ OffersOne("data")
            /\ emitted' = emitted
            /\ events' = events
            /\ spc' = "header"
            /\ eventType' = <<>>
            /\ data' = <<>>
            /\ body' = SubSeq(body, Len(CRLF) + 1, Len(body))]_vars

\* A header followed by a bare CRLF has been reported, and the frame after
\* it has been read from its header line and emitted.
C27_Witness ==
    /\ input = <<FrameNoData, FrameOwn>>
    /\ Len(failures) = 1
    /\ failures[1].kind = "data"
    /\ emitted = <<ExpectedEvent(FrameOwn)>>

\* A whole line is there and it is not a bare CRLF.
BadLineAhead == Index(body, "\n") # 0 /\ LineAhead # CRLF

\* The event made of the type and the payload the parser holds.
HeldEvent == [Type |-> eventType, Data |-> data]

\* C28 (bad delimiter): when the third line of a frame is read and is not
\* exactly CRLF, one parse failure is offered on the error channel and the
\* parser goes on to its select with the type and the payload it has parsed;
\* what the select sends is the event made of these two, and the send is
\* possible as soon as the channel has room.
C28_BadDelimiter ==
    /\ [][(spc = "delim" /\ Reads /\ BadLineAhead) =>
            /\ OffersOne("delim")
            /\ spc' = "select"
            /\ eventType' = eventType
            /\ data' = data
            /\ emitted' = emitted]_vars
    /\ [][(emitted' # emitted) =>
            /\ spc = "select"
            /\ emitted' = Append(emitted, HeldEvent)
            /\ events' = Append(events, HeldEvent)]_vars
    /\ []((Alive /\ spc = "select" /\ Len(events) < EventsCap) => ENABLED SelectSend)

\* The frame with the bad third line has been reported and its event sent.
C28_Witness ==
    /\ input = <<FrameBadDelim>>
    /\ Len(failures) = 1
    /\ failures[1].kind = "delim"
    /\ emitted = <<[Type |-> <<"x">>, Data |-> <<"y">>]>>

\* A frame whose third line, as the parser reads it, is not a bare CRLF: a
\* header line and a data line, followed by some other line or by the first
\* line of the next item.
BadDelimFrame(item) ==
    /\ Len(item) >= 2
    /\ FieldLine(item[1])
    /\ FieldLine(item[2])
    /\ ~WellFormedFrame(item)

\* The well-formed frames of the stream that come after such a frame.
FollowingFrames ==
    {k \in DOMAIN input :
        /\ WellFormedFrame(input[k])
        /\ \E j \in 1..(k - 1) : BadDelimFrame(input[j])}

\* The parser has read the whole stream and holds no event.
AllRead == body = <<>> /\ spc = "header" /\ Alive /\ ~ctxDone

\* C29 (resynchronization), as claimed: once the whole stream is read, every
\* well-formed frame that came after a frame with a bad delimiter line has
\* been emitted with its own type and payload.
C29_Resynchronization ==
    AllRead =>
        \A k \in FollowingFrames : \E i \in DOMAIN emitted : emitted[i] = ExpectedEvent(input[k])

\* The parser stands before a read that returns now.
ReadReturns == Alive /\ spc \in {"header", "data", "delim"} /\ CanRead

\* C30 (non-blocking error reporting): a read that returns is a step the
\* parser can take whether or not a receiver waits on the error channel; the
\* step that reports a failure hands it over when the receiver waits and
\* drops it otherwise, and either way the parser has moved on to its next
\* read or to its select.
C30_NonBlockingErrors ==
    /\ [](ReadReturns => ENABLED ParserStep)
    /\ [][(Len(failures') = Len(failures) + 1) =>
            /\ failures'[Len(failures')].delivered = errsReady
            /\ body' # body \/ eofReads' = eofReads + 1
            /\ spc' \in {"header", "select"}]_vars

\* Nobody took the failure of the first frame, and the event of the frame
\* after it has been sent.
C30_Witness ==
    /\ input = <<FrameNoData, FrameOwn>>
    /\ failures # <<>>
    /\ \A i \in DOMAIN failures : ~failures[i].delivered
    /\ emitted = <<ExpectedEvent(FrameOwn)>>
    /\ ~errsReady

\* The getEvents goroutine takes a step.
ParserMoves ==
    <<spc, body, eofReads, failures, eventType, data, emitted>>'
        # <<spc, body, eofReads, failures, eventType, data, emitted>>

\* No whole line is left: the next read fails.
NoLineAhead == Index(body, "\n") = 0

\* The failures reported so far that are read errors.
ReadFailures == {i \in DOMAIN failures : failures[i].kind = "read"}

\* C31 (read errors are not fatal): a read that fails, at the header, data
\* or delimiter position, is offered on the error channel, emits no event
\* and leaves the parser at the header position with no type or payload kept;
\* once a read has failed the parser stays at the header position of an
\* ended stream, every further read it makes fails and is reported too, the
\* next read remains a step it can take, and no event is emitted any more.
C31_ReadErrorsNotFatal ==
    /\ [][(Alive /\ spc \in {"header", "data", "delim"} /\ NoLineAhead /\ ParserMoves) =>
            /\ closed
            /\ OffersOne("read")
            /\ eofReads' = eofReads + 1
            /\ emitted' = emitted
            /\ events' = events
            /\ spc' = "header"
            /\ eventType' = <<>>
            /\ data' = <<>>
            /\ body' = <<>>]_vars
    /\ [](eofReads > 0 =>
            /\ spc = "header"
            /\ body = <<>>
            /\ Cardinality(ReadFailures) = eofReads)
    /\ []((eofReads > 0 /\ eofReads < MaxEofReads /\ Alive) => ENABLED ReadHeader)
    /\ [][eofReads > 0 => emitted' = emitted]_vars

\* The stream ended where the delimiter of its second frame was due: the
\* first frame's event is the only one sent, and two reads have failed.
C31_Witness ==
    /\ input = <<FrameOwn, FrameNoDelim>>
    /\ eofReads = 2
    /\ Len(failures) = 2
    /\ failures[1].kind = "read"
    /\ failures[2].kind = "read"
    /\ emitted = <<ExpectedEvent(FrameOwn)>>
    /\ spc = "header"

\* The calls of the run that submit a batch.
ChangeCalls == {i \in DOMAIN calls : calls[i] = "change"}

\* The wait of the run fails: the step, and the state it leaves.
AwaitFailsStep == pc = "wait" /\ waitErr'

AfterFailedWait ==
    waitErr =>
        /\ result = "ok"
        /\ pc \in {"sleep", "recv"}
        /\ Cardinality(ChangeCalls) = 1
        /\ calls[Len(calls)] = "wait"
        /\ calls[Len(calls) - 1] = "change"

\* C32 (await-completion failure is swallowed): when the wait for the
\* accepted batch fails, updateRecords returns success, neither a fatal nor
\* a non-fatal error; the zone stays as the accepted batch left it, the run
\* has submitted its batch once and submits nothing more, and main goes to
\* its sleep and then to its receive; the run that follows takes the run for
\* a successful one.
C32_AwaitFailureSwallowed ==
    /\ [][AwaitFailsStep =>
            /\ result' = "ok"
            /\ pc' = "sleep"
            /\ calls' = Append(calls, "wait")
            /\ zone' = zone
            /\ changes' = changes]_vars
    /\ []AfterFailedWait
    /\ [][(waitErr /\ pc' # pc) =>
            \/ /\ pc = "sleep"
               /\ pc' = "recv"
               /\ calls' = calls
               /\ zone' = zone
               /\ result' = result
               /\ runs' = runs
            \/ /\ pc = "recv"
               /\ pc' = "fetch"
               /\ runs' = runs + 1
               /\ zone' = zone
               /\ prev' = [taskIps |-> taskIps, upserts |-> WithAction(changes, "UPSERT")]]_vars

\* The wait has failed on a batch for two addresses, and main is at its
\* receive.
C32_Witness ==
    /\ waitErr
    /\ pc = "recv"
    /\ result = "ok"
    /\ taskIps = {A1, A5}
    /\ calls[Len(calls)] = "wait"

\* The list of the run fails.
ListFailsStep == pc = "list" /\ listErr'

\* The batch holds an upsert whose single value is the address a.
UpsertFor(chs, a) ==
    \E i \in DOMAIN chs :
        /\ chs[i].Action = "UPSERT"
        /\ chs[i].ResourceRecordSet.ResourceRecords = <<a>>

\* A record set with a value that is not a desired address of the run.
OutsideDesired(r) ==
    \E i \in DOMAIN r.ResourceRecords : r.ResourceRecords[i] \notin taskIps

\* The accepted batch of a run whose list failed is applied to the zone.
AcceptedAfterListFailure == listErr /\ pc = "submit" /\ pc' = "wait"

\* The run whose list failed has returned after its wait.
ReturnedAfterListFailure ==
    listErr /\ pc \in {"sleep", "recv"} /\ calls[Len(calls)] = "wait"

\* C33 (list failure is ignored): when the list operation fails and returns
\* no record sets, the run reports no error for it, schedules no Delete and
\* goes on to submit a batch that holds an Upsert for every desired address;
\* when that batch is accepted the run returns success, and every record set
\* of the zone with a value outside the desired set is still in the zone
\* after the batch.
C33_ListFailureIgnored ==
    /\ [][ListFailsStep =>
            /\ recordSets' = <<>>
            /\ result' = result
            /\ pc' = "submit"
            /\ WithAction(changes', "DELETE") = <<>>
            /\ \A a \in taskIps : UpsertFor(changes', a)]_vars
    /\ [][AcceptedAfterListFailure =>
            \A r \in zone : OutsideDesired(r) => r \in zone']_vars
    /\ [](ReturnedAfterListFailure => result = "ok")

\* The enumerated strategy cannot split the configured name.
NameDoesNotSplit ==
    ENUMERATED \in recordSetTypes /\ Len(SplitN2(recordSetName, ".")) # 2

\* The batch holds an upsert of the record set r is identified by.
Overwritten(chs, r) ==
    \E i \in DOMAIN chs :
        chs[i].Action = "UPSERT" /\ SameRecord(chs[i].ResourceRecordSet, r)

\* What holds of every run whose list fails: no error is reported for the
\* list and no Delete is scheduled; the run ends with the fatal
\* configuration error exactly when the name does not split, and otherwise
\* goes on to submit upserts for every desired address; an accepted batch
\* leaves every record set it does not overwrite, and the run returns
\* success.
ListFailureIgnored ==
    /\ [][ListFailsStep =>
            /\ recordSets' = <<>>
            /\ WithAction(changes', "DELETE") = <<>>
            /\ IF NameDoesNotSplit
               THEN result' = "fatal" /\ pc' = "fatal"
               ELSE /\ result' = result
                    /\ pc' = "submit"
                    /\ \A a \in taskIps : UpsertFor(changes', a)]_vars
    /\ [][AcceptedAfterListFailure =>
            \A r \in zone : ~Overwritten(changes, r) => r \in zone']_vars
    /\ [](ReturnedAfterListFailure => result = "ok")

\* The part of C33 on the records left: it fails on its own, on an
\* enumerated record set of an earlier run.
StaleRecordsLeft ==
    [][AcceptedAfterListFailure =>
            \A r \in zone : OutsideDesired(r) => r \in zone']_vars

====
